---- MODULE Spec2Model ----
\* medaCy sequence-tagging pipeline: BiLstmCrfLearner (ner/learners/bilstm_crf.py)
\* and PytorchModel / LSTMTagger (ner/model/pytorch_model.py).
\*
\* Python values are modelled as follows: a list is a sequence, a dict is a
\* function from its keys to its values (the empty dict is <<>>), a set is a set,
\* None is the record None, a tensor is its shape (a sequence of dimensions) or,
\* for an index tensor, the sequence of its indices. A call that raises is
\* recorded by the name of the exception class.
EXTENDS Integers, Sequences, FiniteSets, TLC

VARIABLES
    cls,             \* class of the instance: "BiLstmCrfLearner" or "PytorchModel"
    bidirectional,   \* PytorchModel.bidirectional (constructor argument)
    model,           \* self.model
    token_to_index,  \* BiLstmCrfLearner.token_to_index
    word_to_index,   \* PytorchModel.word_to_index
    tag_to_index,    \* self.tag_to_index (both classes)
    labels,          \* PytorchModel.labels
    disk,            \* what torch.save left at the path
    frame,           \* locals and position of the fit call in progress
    call,            \* the last completed call: its name, arguments and outcome
    prev,            \* the completed call before it
    fitted,          \* history: a fit of this instance has returned normally
    loaded,          \* history: a load of this instance has returned normally
    env              \* the training data the caller holds and passes to fit

vars == <<cls, bidirectional, model, token_to_index, word_to_index, tag_to_index,
          labels, disk, frame, call, prev, fitted, loaded, env>>

inst == <<cls, bidirectional, model, token_to_index, word_to_index, tag_to_index,
          labels, disk, frame, fitted, loaded, env>>

\* ------------------------------------------------------------------ constants

SEGMENT_SIZE == 100
EMBEDDING_DIM == 64
HIDDEN_DIM == 64
fit_EMBEDDING_DIM == 64
fit_HIDDEN_DIM == 64

\* ------------------------------------------------------------------ bounds

MaxLen == 2        \* longest token or tag sequence of a small corpus
MaxDocs == 2       \* most documents of a small corpus
MaxEpochs == 2     \* largest epochs argument of PytorchModel.fit
MaxN == 250        \* longest sequence handed to get_segments
MaxSkew == 1       \* largest local difference between a long document and its tags
MaxTagset == 3     \* largest tagset_size of a directly constructed network
MaxVocab == 2      \* largest vocab_size of a directly constructed network

Items == {"a", "b"}
EntityLabels == {"DRUG", "DOSE"}

\* ------------------------------------------------------------------ values

None == [type |-> "NoneType"]

Return(v) == [outcome |-> "return", value |-> v]

Raise(e) == [outcome |-> "raise", error |-> e]

NoCall == [fn |-> "none", arg |-> <<>>, ret |-> Return(None)]

Min(a, b) == IF a < b THEN a ELSE b

\* len(d) of a dict
DictLen(d) == Cardinality(DOMAIN d)

\* d[k] = v on a dict
DictSet(d, k, v) == [x \in DOMAIN d \cup {k} |-> IF x = k THEN v ELSE d[x]]

\* source[i:j] of a list, 0 <= i <= j
Slice(source, i, j) == SubSeq(source, i + 1, Min(j, Len(source)))

\* all sequences over S of length at most n
SeqsUpTo(S, n) == UNION {[1..k -> S] : k \in 0..n}

\* the orders in which a Python set can be iterated
Orders(S) == {o \in [1..Cardinality(S) -> S] : {o[k] : k \in DOMAIN o} = S}

\* ------------------------------------------------------------------ indexer

\* an indexer without the membership test: every occurrence is assigned anew
index_item_unguarded(to_index, item) == DictSet(to_index, item, DictLen(to_index))

\* the body of the indexing loops:
\*   if item not in to_index: to_index[item] = len(to_index)
index_item(to_index, item) ==
    IF item \in DOMAIN to_index THEN to_index
    ELSE DictSet(to_index, item, DictLen(to_index))

\* for item in sequence: index_item. The items are visited first to last; the
\* sequence is walked as its first half followed by its second half, which keeps
\* the depth of the evaluation logarithmic in its length.
RECURSIVE index_items(_, _)
index_items(sequence, to_index) ==
    IF Len(sequence) = 0 THEN to_index
    ELSE IF Len(sequence) = 1 THEN index_item(to_index, sequence[1])
    ELSE LET half == Len(sequence) \div 2
             first == index_items(SubSeq(sequence, 1, half), to_index)
         IN \* the test forces first to be evaluated before the second half is walked
            IF DictLen(first) >= 0
            THEN index_items(SubSeq(sequence, half + 1, Len(sequence)), first)
            ELSE first

RECURSIVE index_sequences(_, _)
index_sequences(sequences, to_index) ==
    IF sequences = <<>> THEN to_index
    ELSE index_sequences(Tail(sequences), index_items(Head(sequences), to_index))

create_index_dictionary(sequences) == index_sequences(sequences, <<>>)

\* ------------------------------------------------------------------ segmenter

RECURSIVE segments_from(_, _, _)
segments_from(source, i, segments) ==
    IF i >= Len(source) THEN segments
    ELSE segments_from(source, i + SEGMENT_SIZE,
                       Append(segments, Slice(source, i, i + SEGMENT_SIZE)))

\* a segmenter whose range runs one past the end: range(0, len(source) + 1, SEGMENT_SIZE)
RECURSIVE segments_from_past_end(_, _, _)
segments_from_past_end(source, i, segments) ==
    IF i >= Len(source) + 1 THEN segments
    ELSE segments_from_past_end(source, i + SEGMENT_SIZE,
                                Append(segments, Slice(source, i, i + SEGMENT_SIZE)))

get_segments_past_end(source) == segments_from_past_end(source, 0, <<>>)

get_segments(source) == segments_from(source, 0, <<>>)

\* ------------------------------------------------------------------ get_training_data

\* lines 77-80: the word index over the documents of training_data, in order
RECURSIVE word_index(_, _)
word_index(training_data, to_index) ==
    IF training_data = <<>> THEN to_index
    ELSE word_index(Tail(training_data), index_items(Head(training_data)[1], to_index))

\* lines 89-94: pair the segments of each document with the segments of its tags;
\* tag_segments[i] raises IndexError when the tags have fewer segments
RECURSIVE pair_segments(_, _)
pair_segments(training_data, preprocessed_data) ==
    IF training_data = <<>> THEN Return(preprocessed_data)
    ELSE LET sentences == get_segments(Head(training_data)[1])
             tag_segments == get_segments(Head(training_data)[2])
         IN IF Len(tag_segments) < Len(sentences) THEN Raise("IndexError")
            ELSE pair_segments(Tail(training_data),
                     preprocessed_data \o
                         [i \in 1..Len(sentences) |-> <<sentences[i], tag_segments[i]>>])

\* get_training_data on a dataset whose get_labels() is dataset_labels and whose
\* get_training_data('pytorch') is training_data; order is the order in which
\* "for label in labels" visits the label set. The result holds what the call
\* returns or raises and what it assigns to self.
get_training_data(dataset_labels, order, training_data) ==
    LET paired == pair_segments(training_data, <<>>)
    IN [ret |-> paired,
        assigned |-> paired.outcome = "return",
        labels |-> dataset_labels \cup {"O"},
        word_to_index |-> word_index(training_data, <<>>),
        tag_to_index |-> index_items(order, <<>>)]

\* ------------------------------------------------------------------ vectorize

\* BiLstmCrfLearner.vectorize: the index tensors the call can return. An item of
\* the mapping gets its index; any other item gets random.randrange(len(to_index)),
\* which is any index of the mapping and raises ValueError on an empty mapping.
Learner_vectorize(sequence, to_index) ==
    IF \E i \in DOMAIN sequence : sequence[i] \notin DOMAIN to_index /\ DictLen(to_index) = 0
    THEN {Raise("ValueError")}
    ELSE {Return(indices) : indices \in
            {v \in [DOMAIN sequence -> 0..(DictLen(to_index) - 1)] :
                \A i \in DOMAIN sequence :
                    sequence[i] \in DOMAIN to_index => v[i] = to_index[sequence[i]]}}

\* PytorchModel.vectorize: [to_index[w] for w in sequence] raises KeyError on an
\* item the mapping lacks
Model_vectorize(sequence, to_index) ==
    IF \E i \in DOMAIN sequence : sequence[i] \notin DOMAIN to_index
    THEN Raise("KeyError")
    ELSE Return([i \in DOMAIN sequence |-> to_index[sequence[i]]])

\* ------------------------------------------------------------------ networks

Embedding(num_embeddings, embedding_dim) ==
    [num_embeddings |-> num_embeddings, embedding_dim |-> embedding_dim]

LSTM(input_size, hidden_size, bi) ==
    [input_size |-> input_size, hidden_size |-> hidden_size, bidirectional |-> bi]

Linear(in_features, out_features) ==
    [in_features |-> in_features, out_features |-> out_features]

\* LSTMTagger.__init__
LSTMTagger(embedding_dim, hidden_dim, vocab_size, tagset_size, bi) ==
    [type |-> "LSTMTagger",
     word_embeddings |-> Embedding(vocab_size, embedding_dim),
     lstm |-> LSTM(embedding_dim, hidden_dim, bi),
     hidden2tag |-> Linear(hidden_dim, tagset_size)]

\* BiLstmCrfNetwork.__init__
BiLstmCrfNetwork(vocab_size, tagset_size) ==
    [type |-> "BiLstmCrfNetwork",
     word_embeddings |-> Embedding(vocab_size, EMBEDDING_DIM),
     lstm |-> LSTM(EMBEDDING_DIM, HIDDEN_DIM, TRUE),
     hidden2tag |-> Linear(HIDDEN_DIM * 2, tagset_size)]

\* the shape of an LSTM's output for one sequence of seq_len inputs in a batch of 1
lstm_out_shape(lstm, seq_len) ==
    <<seq_len, 1, (IF lstm.bidirectional THEN 2 ELSE 1) * lstm.hidden_size>>

\* forward of a tagging network on an index tensor; the result is the shape of
\* tag_scores. The embedding lookup raises IndexError on an index outside the
\* table, view(len(sentence), 1, -1) raises RuntimeError on an empty tensor (the
\* -1 is ambiguous), the linear layer raises RuntimeError when the width of its
\* input is not in_features.
forward_shape(self, sentence) ==
    LET seq_len == Len(sentence)
        lstm_out == lstm_out_shape(self.lstm, seq_len)
        flat_width == lstm_out[2] * lstm_out[3]
    IN IF \E i \in DOMAIN sentence :
              sentence[i] < 0 \/ sentence[i] >= self.word_embeddings.num_embeddings
       THEN Raise("IndexError")
       ELSE IF seq_len = 0 THEN Raise("RuntimeError")
       ELSE IF flat_width # self.hidden2tag.in_features THEN Raise("RuntimeError")
       ELSE Return(<<seq_len, self.hidden2tag.out_features>>)

\* LSTMTagger.forward
LSTMTagger_forward(self, sentence) == forward_shape(self, sentence)

\* BiLstmCrfNetwork.forward
BiLstmCrfNetwork_forward(self, sentence) == forward_shape(self, sentence)

\* model(sentence) on whatever self.model or a local model holds
apply_model(net, sentence) ==
    IF net.type = "LSTMTagger" THEN LSTMTagger_forward(net, sentence)
    ELSE IF net.type = "BiLstmCrfNetwork" THEN BiLstmCrfNetwork_forward(net, sentence)
    ELSE Raise("TypeError")

\* ------------------------------------------------------------------ direct calls

\* the instance as its class attributes leave it (bilstm_crf.py 37-39,
\* pytorch_model.py 38-41), with nothing on disk and no call made
FreshInstance(c, b) ==
    /\ cls = c
    /\ bidirectional = b
    /\ model = None
    /\ token_to_index = <<>>
    /\ word_to_index = <<>>
    /\ tag_to_index = <<>>
    /\ labels = {}
    /\ disk = [type |-> "absent"]
    /\ frame = [pc |-> "idle"]
    /\ fitted = FALSE
    /\ loaded = FALSE

\* a sequence of length n that cycles through the list alphabet
Cycle(n, alphabet) == [i \in 1..n |-> alphabet[((i - 1) % Len(alphabet)) + 1]]

\* for a document, tags of the same length that mark no entity
NoEntityTags(document) == [i \in DOMAIN document |-> "O"]

SmallCorpora == SeqsUpTo(SeqsUpTo(Items, MaxLen), MaxDocs)

\* a label set of a dataset with an order in which the set with 'O' added iterates
LabelOrders(names) ==
    UNION {{<<l, o>> : o \in Orders(l \cup {"O"})} : l \in SUBSET names}

\* datasets whose documents are short and carry aligned tags
SmallDatasets ==
    {[dataset_labels |-> lo[1], order |-> lo[2],
      training_data |-> [k \in DOMAIN x |-> <<x[k], NoEntityTags(x[k])>>]] :
        lo \in LabelOrders(EntityLabels), x \in SmallCorpora}

\* datasets of one long document whose tags are up to MaxSkew longer or shorter
LongDatasets ==
    UNION {{[dataset_labels |-> {"DRUG"}, order |-> <<"O", "DRUG">>,
             training_data |-> <<<<Cycle(n, <<"a", "b", "c">>),
                                   Cycle(m, <<"O", "DRUG">>)>>>>] :
               m \in {k \in (n - MaxSkew)..(n + MaxSkew) : k >= 0}} : n \in 0..MaxN}

\* a call that has been made and has not returned
Pending == [outcome |-> "pending"]

CreateIndexDictionaryCalls ==
    {[fn |-> "create_index_dictionary", arg |-> <<sequences>>, ret |-> Pending] :
        sequences \in SmallCorpora}

GetSegmentsCalls ==
    {[fn |-> "get_segments", arg |-> <<[i \in 1..n |-> i]>>, ret |-> Pending] :
        n \in 0..MaxN}

GetTrainingDataCalls ==
    {[fn |-> "get_training_data", arg |-> dataset, ret |-> Pending] :
        dataset \in SmallDatasets \cup LongDatasets}

CallCreateIndexDictionary ==
    /\ cls = "BiLstmCrfLearner"
    /\ call.fn = "create_index_dictionary" /\ call.ret = Pending
    /\ call' = [call EXCEPT !.ret = Return(create_index_dictionary(call.arg[1]))]
    /\ UNCHANGED <<inst, prev>>

CallGetSegments ==
    /\ cls = "PytorchModel"
    /\ call.fn = "get_segments" /\ call.ret = Pending
    /\ call' = [call EXCEPT !.ret = Return(get_segments(call.arg[1]))]
    /\ UNCHANGED <<inst, prev>>

CallGetTrainingData ==
    /\ cls = "PytorchModel"
    /\ call.fn = "get_training_data" /\ call.ret = Pending
    /\ LET got == get_training_data(call.arg.dataset_labels, call.arg.order,
                                    call.arg.training_data)
       IN /\ call' = [call EXCEPT !.ret = got.ret]
          /\ labels' = IF got.assigned THEN got.labels ELSE labels
          /\ word_to_index' = IF got.assigned THEN got.word_to_index ELSE word_to_index
          /\ tag_to_index' = IF got.assigned THEN got.tag_to_index ELSE tag_to_index
    /\ UNCHANGED <<cls, bidirectional, model, token_to_index, disk, frame, fitted,
                   loaded, prev, env>>

InitData ==
    /\ env = <<>>
    /\ call \in CreateIndexDictionaryCalls \cup GetSegmentsCalls \cup GetTrainingDataCalls
    /\ prev = NoCall
    /\ FreshInstance(IF call.fn = "create_index_dictionary" THEN "BiLstmCrfLearner"
                     ELSE "PytorchModel", FALSE)

NextData == CallCreateIndexDictionary \/ CallGetSegments \/ CallGetTrainingData

SpecData == InitData /\ [][NextData]_vars

\* ------------------------------------------------------------------ direct calls of vectorize

\* the mappings the indexer builds from the small corpora
BuiltMappings == {create_index_dictionary(x) : x \in SmallCorpora}

\* the sequences handed to vectorize: items of the corpora and one seen in none
VectorizeCalls ==
    {[fn |-> "vectorize", arg |-> <<sequence, to_index>>, ret |-> Pending] :
        sequence \in SeqsUpTo(Items \cup {"unseen"}, MaxLen), to_index \in BuiltMappings}

CallLearnerVectorize ==
    /\ cls = "BiLstmCrfLearner"
    /\ call.fn = "vectorize" /\ call.ret = Pending
    /\ \E ret \in Learner_vectorize(call.arg[1], call.arg[2]) :
          call' = [call EXCEPT !.ret = ret]
    /\ UNCHANGED <<inst, prev>>

CallModelVectorize ==
    /\ cls = "PytorchModel"
    /\ call.fn = "vectorize" /\ call.ret = Pending
    /\ call' = [call EXCEPT !.ret = Model_vectorize(call.arg[1], call.arg[2])]
    /\ UNCHANGED <<inst, prev>>

\* the caller makes the call it has just made once more
CallVectorizeAgain ==
    /\ call.fn = "vectorize" /\ call.ret # Pending
    /\ prev = NoCall
    /\ prev' = call
    /\ call' = [call EXCEPT !.ret = Pending]
    /\ UNCHANGED inst

InitVectorize ==
    /\ env = <<>>
    /\ call \in VectorizeCalls
    /\ prev = NoCall
    /\ \E c \in {"BiLstmCrfLearner", "PytorchModel"} : FreshInstance(c, FALSE)

NextVectorize == CallLearnerVectorize \/ CallModelVectorize \/ CallVectorizeAgain

SpecVectorize == InitVectorize /\ [][NextVectorize]_vars

\* C4: against a non-empty mapping vectorize does not raise, returns one index
\* per item in order (the item's own index when it has one), gives every item
\* the mapping lacks the same index, and returns the same indices when the same
\* call is made again
VectorizeSingleFallback ==
    (call.fn = "vectorize" /\ call.ret # Pending /\ DictLen(call.arg[2]) > 0) =>
        LET sequence == call.arg[1]
            to_index == call.arg[2]
            OOV == {i \in DOMAIN sequence : sequence[i] \notin DOMAIN to_index}
        IN /\ call.ret.outcome = "return"
           /\ DOMAIN call.ret.value = DOMAIN sequence
           /\ \A i \in DOMAIN sequence \ OOV : call.ret.value[i] = to_index[sequence[i]]
           /\ \A i, j \in OOV : call.ret.value[i] = call.ret.value[j]
           /\ prev.fn = "vectorize" => call.ret = prev.ret

\* ------------------------------------------------------------------ direct calls of forward

\* the networks the two fit methods can construct, by vocabulary and tag-set size
Networks ==
    {LSTMTagger(fit_EMBEDDING_DIM, fit_HIDDEN_DIM, v, t, b) :
        v \in 0..MaxVocab, t \in 0..MaxTagset, b \in BOOLEAN}
    \cup {BiLstmCrfNetwork(v, t) : v \in 0..MaxVocab, t \in 0..MaxTagset}

ForwardCalls ==
    {[fn |-> "forward", arg |-> <<net, sentence>>, ret |-> Pending] :
        net \in Networks, sentence \in SeqsUpTo(0..(MaxVocab - 1), MaxLen)}

CallForward ==
    /\ call.fn = "forward" /\ call.ret = Pending
    /\ call' = [call EXCEPT !.ret = apply_model(call.arg[1], call.arg[2])]
    /\ UNCHANGED <<inst, prev>>

InitNetwork ==
    /\ env = <<>>
    /\ call \in ForwardCalls
    /\ prev = NoCall
    /\ FreshInstance(IF call.arg[1].type = "LSTMTagger" THEN "PytorchModel"
                     ELSE "BiLstmCrfLearner",
                     call.arg[1].lstm.bidirectional)

NextNetwork == CallForward

SpecNetwork == InitNetwork /\ [][NextNetwork]_vars

\* C10: on a sentence of L >= 1 indices of the vocabulary, forward returns scores
\* of shape L x T, for every network either fit can construct
ForwardShapeLxT ==
    (/\ call.fn = "forward" /\ call.ret # Pending
     /\ Len(call.arg[2]) >= 1
     /\ \A i \in DOMAIN call.arg[2] :
           call.arg[2][i] < call.arg[1].word_embeddings.num_embeddings) =>
        call.ret = Return(<<Len(call.arg[2]), call.arg[1].hidden2tag.out_features>>)

\* ------------------------------------------------------------------ training step

\* optimizer.zero_grad() left out: the gradients of the last step stay
optimizer_zero_grad_skipped(grads) == grads

\* optimizer.zero_grad(): grads counts the backward passes whose gradients are
\* accumulated in the parameters
optimizer_zero_grad(grads) == 0

\* loss.backward() adds the gradients of this loss to the accumulated ones
loss_backward(grads) == grads + 1

\* nn.NLLLoss on scores of shape <<L, T>> and a tensor of target indices
loss_function(scores, targets) ==
    IF scores[1] # Len(targets) THEN Raise("ValueError")
    ELSE IF \E i \in DOMAIN targets : targets[i] < 0 \/ targets[i] >= scores[2]
    THEN Raise("IndexError")
    ELSE Return(<<>>)

\* devectorize / devectorize_tags on scores of shape <<L, T>>: each row's arg-max
\* is some index 0..T-1 (max() of an empty row raises ValueError), looked up in
\* the inverse of to_index (KeyError when no tag has that index)
devectorize(scores, to_index) ==
    IF scores[2] = 0 THEN {Raise("ValueError")}
    ELSE {IF \E i \in 1..scores[1] : \A t \in DOMAIN to_index : to_index[t] # index[i]
          THEN Raise("KeyError")
          ELSE Return([i \in 1..scores[1] |->
                          CHOOSE t \in DOMAIN to_index : to_index[t] = index[i]]) :
             index \in [1..scores[1] -> 0..(scores[2] - 1)]}

\* the locals of a fit call at the head of its training loop; before is what
\* the caller could observe of the instance when it made the call
Locals(pc, examples, epochs, net, before) ==
    [pc |-> pc, before |-> before,
     examples |-> examples, epochs |-> epochs, epoch |-> 0, i |-> 0,
     net |-> net, grads |-> 0, updates |-> 0, log |-> <<>>,
     inputs |-> <<>>, targets |-> <<>>, scores |-> <<>>]

Idle == [pc |-> "idle"]

\* what a caller can observe of the instance
Observable == <<model, token_to_index, word_to_index, tag_to_index, labels>>

\* everything but the call in progress and the record of calls
self_vars == <<cls, bidirectional, model, token_to_index, word_to_index, tag_to_index,
               labels, disk, fitted, loaded, env>>

\* the fit call in progress raises e
FitRaises(e) ==
    /\ frame' = Idle
    /\ call' = [call EXCEPT !.ret = Raise(e)]

\* zip(x_data, y_data)
zip(x_data, y_data) ==
    [k \in 1..Min(Len(x_data), Len(y_data)) |-> <<x_data[k], y_data[k]>>]

\* the steps of the loop body that the two fit methods share, on the locals of
\* the call in progress

\* Step 1: optimizer.zero_grad()
StepZeroGrad ==
    /\ frame.pc = "loop" /\ frame.i < Len(frame.examples)
    /\ frame' = [frame EXCEPT !.pc = "vectorize",
                              !.grads = optimizer_zero_grad(frame.grads),
                              !.log = <<"zero_grad">>]
    /\ UNCHANGED <<self_vars, call, prev>>

\* Step 2, given the outcomes of the two vectorize calls
StepVectorize(sentence_in, targets) ==
    /\ IF sentence_in.outcome = "raise" THEN FitRaises(sentence_in.error)
       ELSE IF targets.outcome = "raise" THEN FitRaises(targets.error)
       ELSE /\ frame' = [frame EXCEPT !.pc = "forward",
                                      !.inputs = sentence_in.value,
                                      !.targets = targets.value,
                                      !.log = Append(frame.log, "vectorize")]
            /\ UNCHANGED call
    /\ UNCHANGED <<self_vars, prev>>

\* Step 3: model(sentence_in)
StepForward ==
    /\ frame.pc = "forward"
    /\ LET tag_scores == apply_model(frame.net, frame.inputs)
       IN IF tag_scores.outcome = "raise" THEN FitRaises(tag_scores.error)
          ELSE /\ frame' = [frame EXCEPT !.pc = "loss", !.scores = tag_scores.value,
                                         !.log = Append(frame.log, "forward")]
               /\ UNCHANGED call
    /\ UNCHANGED <<self_vars, prev>>

\* Step 4: loss_function(tag_scores, targets)
StepLoss ==
    /\ frame.pc = "loss"
    /\ LET loss == loss_function(frame.scores, frame.targets)
       IN IF loss.outcome = "raise" THEN FitRaises(loss.error)
          ELSE /\ frame' = [frame EXCEPT !.pc = "backward",
                                         !.log = Append(frame.log, "loss")]
               /\ UNCHANGED call
    /\ UNCHANGED <<self_vars, prev>>

\* loss.backward()
StepBackward ==
    /\ frame.pc = "backward"
    /\ frame' = [frame EXCEPT !.pc = "step", !.grads = loss_backward(frame.grads),
                              !.log = Append(frame.log, "backward")]
    /\ UNCHANGED <<self_vars, call, prev>>

\* optimizer.step(), and on to the next example
StepOptimizer ==
    /\ frame.pc = "step"
    /\ frame' = [frame EXCEPT !.pc = "loop", !.updates = frame.updates + 1,
                              !.i = frame.i + 1,
                              !.log = Append(frame.log, "step")]
    /\ UNCHANGED <<self_vars, call, prev>>

\* ------------------------------------------------------------------ fit arguments

TokenDocs == {Cycle(n, <<"a", "b", "c">>) : n \in 0..MaxLen}

TagDocs == {Cycle(n, <<"O", "DRUG">>) : n \in 0..MaxLen}

\* x_data and y_data of BiLstmCrfLearner.fit
TokenCorpora == SeqsUpTo(TokenDocs, MaxDocs)

TagCorpora == SeqsUpTo(TagDocs, MaxDocs)

\* the dataset argument of PytorchModel.fit: a Dataset with its labels, the order
\* in which its label set is iterated and its training data, or something else
FitDatasets ==
    {[is_dataset |-> TRUE, dataset_labels |-> lo[1], order |-> lo[2], training_data |-> td] :
        lo \in LabelOrders({"DRUG"}), td \in SeqsUpTo(TokenDocs \X TagDocs, MaxDocs)}
    \cup {[is_dataset |-> FALSE, dataset_labels |-> {}, order |-> <<"O">>,
           training_data |-> <<>>]}

\* ------------------------------------------------------------------ BiLstmCrfLearner

\* fit, lines 76-85: the mappings are assigned to self, then the network, the
\* loss and the optimizer are built
LearnerFit ==
    /\ cls = "BiLstmCrfLearner" /\ frame.pc = "idle"
    /\ token_to_index' = create_index_dictionary(env.x_data)
    /\ tag_to_index' = create_index_dictionary(env.y_data)
    /\ frame' = Locals("loop", zip(env.x_data, env.y_data), 1,
                       BiLstmCrfNetwork(DictLen(create_index_dictionary(env.x_data)),
                                        DictLen(create_index_dictionary(env.y_data))),
                       Observable)
    /\ call' = [fn |-> "fit", arg |-> <<env.x_data, env.y_data>>, ret |-> Pending]
    /\ UNCHANGED <<cls, bidirectional, model, word_to_index, labels, disk, fitted, loaded,
                   prev, env>>

\* line 90
LearnerZeroGrad == cls = "BiLstmCrfLearner" /\ StepZeroGrad

\* lines 96-97
LearnerVectorize ==
    /\ cls = "BiLstmCrfLearner" /\ frame.pc = "vectorize"
    /\ \E tokens_vector \in Learner_vectorize(frame.examples[frame.i + 1][1], token_to_index),
          correct_tags_vector \in Learner_vectorize(frame.examples[frame.i + 1][2],
                                                    tag_to_index) :
          StepVectorize(tokens_vector, correct_tags_vector)

\* line 100
LearnerForward == cls = "BiLstmCrfLearner" /\ StepForward

\* line 104
LearnerLoss == cls = "BiLstmCrfLearner" /\ StepLoss

\* line 105
LearnerBackward == cls = "BiLstmCrfLearner" /\ StepBackward

\* line 106
LearnerStep == cls = "BiLstmCrfLearner" /\ StepOptimizer

\* line 108: the loop is over, self.model = model
LearnerFitReturn ==
    /\ cls = "BiLstmCrfLearner" /\ frame.pc = "loop" /\ frame.i = Len(frame.examples)
    /\ model' = frame.net
    /\ fitted' = TRUE
    /\ frame' = Idle
    /\ call' = [call EXCEPT !.ret = Return(None)]
    /\ UNCHANGED <<cls, bidirectional, token_to_index, word_to_index, tag_to_index,
                   labels, disk, loaded, prev, env>>

\* the outcomes of the body of predict's loop for one sequence
Learner_predict_sequence(sequence) ==
    UNION {IF v.outcome = "raise" THEN {v}
           ELSE LET tag_scores == apply_model(model, v.value)
                IN IF tag_scores.outcome = "raise" THEN {tag_scores}
                   ELSE devectorize(tag_scores.value, tag_to_index) :
           v \in Learner_vectorize(sequence, token_to_index)}

\* the outcomes of predict's loop over sequences, given the predictions so far
RECURSIVE Learner_predict_loop(_, _)
Learner_predict_loop(sequences, predictions) ==
    IF sequences = <<>> THEN {Return(predictions)}
    ELSE UNION {IF o.outcome = "raise" THEN {o}
                ELSE Learner_predict_loop(Tail(sequences), Append(predictions, o.value)) :
                o \in Learner_predict_sequence(Head(sequences))}

\* predict, lines 110-123
Learner_predict(sequences) ==
    IF DictLen(token_to_index) = 0 THEN {Raise("RuntimeError")}
    ELSE Learner_predict_loop(sequences, <<>>)

PredictDocs == SeqsUpTo(Items, 1)

LearnerPredict ==
    /\ cls = "BiLstmCrfLearner" /\ frame.pc = "idle"
    /\ \E sequences \in SeqsUpTo(PredictDocs, MaxDocs) :
          \E ret \in Learner_predict(sequences) :
              call' = [fn |-> "predict", arg |-> <<sequences>>, ret |-> ret]
    /\ UNCHANGED <<inst, prev>>

\* ------------------------------------------------------------------ PytorchModel

\* fit, lines 103-120: the type check, get_training_data (which assigns labels
\* and the two mappings to self) and the construction of the network, the loss
\* and the optimizer
ModelFit ==
    /\ cls = "PytorchModel" /\ frame.pc = "idle"
    /\ \E epochs \in 0..MaxEpochs :
          LET got == get_training_data(env.dataset_labels, env.order, env.training_data)
              entered == [fn |-> "fit", arg |-> <<env, epochs>>, ret |-> Pending]
          IN IF ~env.is_dataset
             THEN /\ call' = [entered EXCEPT !.ret = Raise("TypeError")]
                  /\ UNCHANGED <<labels, word_to_index, tag_to_index, frame>>
             ELSE IF ~got.assigned
             THEN /\ call' = [entered EXCEPT !.ret = got.ret]
                  /\ UNCHANGED <<labels, word_to_index, tag_to_index, frame>>
             ELSE /\ call' = entered
                  /\ labels' = got.labels
                  /\ word_to_index' = got.word_to_index
                  /\ tag_to_index' = got.tag_to_index
                  /\ frame' = Locals("epoch", got.ret.value, epochs,
                                     LSTMTagger(fit_EMBEDDING_DIM, fit_HIDDEN_DIM,
                                                DictLen(got.word_to_index),
                                                DictLen(got.tag_to_index), bidirectional),
                                     Observable)
    /\ UNCHANGED <<cls, bidirectional, model, token_to_index, disk, fitted, loaded,
                   prev, env>>

\* line 122-125: one more epoch begins
ModelEpoch ==
    /\ cls = "PytorchModel" /\ frame.pc = "epoch" /\ frame.epoch < frame.epochs
    /\ frame' = [frame EXCEPT !.pc = "loop", !.i = 0]
    /\ UNCHANGED <<self_vars, call, prev>>

\* line 129
ModelZeroGrad == cls = "PytorchModel" /\ StepZeroGrad

\* lines 133-134
ModelVectorize ==
    /\ cls = "PytorchModel" /\ frame.pc = "vectorize"
    /\ StepVectorize(Model_vectorize(frame.examples[frame.i + 1][1], word_to_index),
                     Model_vectorize(frame.examples[frame.i + 1][2], tag_to_index))

\* line 137
ModelForward == cls = "PytorchModel" /\ StepForward

\* line 141
ModelLoss == cls = "PytorchModel" /\ StepLoss

\* line 142
ModelBackward == cls = "PytorchModel" /\ StepBackward

\* line 143
ModelStep == cls = "PytorchModel" /\ StepOptimizer

\* lines 149-150: the examples of the epoch are done; the mean of no loss divides by zero
ModelEpochEnd ==
    /\ cls = "PytorchModel" /\ frame.pc = "loop" /\ frame.i = Len(frame.examples)
    /\ IF Len(frame.examples) = 0 THEN FitRaises("ZeroDivisionError")
       ELSE /\ frame' = [frame EXCEPT !.pc = "epoch", !.epoch = frame.epoch + 1]
            /\ UNCHANGED call
    /\ UNCHANGED <<self_vars, prev>>

\* lines 153-201: the scores of the first training example under no_grad
evaluate(net, training_data, to_word_index) ==
    IF training_data = <<>> THEN Raise("IndexError")
    ELSE LET inputs == Model_vectorize(training_data[1][1], to_word_index)
         IN IF inputs.outcome = "raise" THEN inputs
            ELSE LET tag_scores == apply_model(net, inputs.value)
                 IN IF tag_scores.outcome = "raise" THEN tag_scores
                    ELSE IF Len(training_data[1][2]) < tag_scores.value[1]
                    THEN Raise("IndexError")
                    ELSE Return(None)

\* lines 153-203: the epochs are done; the evaluation, then self.model = model
ModelFitReturn ==
    /\ cls = "PytorchModel" /\ frame.pc = "epoch" /\ frame.epoch = frame.epochs
    /\ LET evaluated == evaluate(frame.net, frame.examples, word_to_index)
       IN IF evaluated.outcome = "raise"
          THEN /\ FitRaises(evaluated.error)
               /\ UNCHANGED <<model, fitted>>
          ELSE /\ model' = frame.net
               /\ fitted' = TRUE
               /\ frame' = Idle
               /\ call' = [call EXCEPT !.ret = Return(None)]
    /\ UNCHANGED <<cls, bidirectional, token_to_index, word_to_index, tag_to_index,
                   labels, disk, loaded, prev, env>>

\* predict, lines 213-262, on an argument of the given kind: the names
\* prediction_directory (a local read before it is assigned) and nlp (bound
\* nowhere in the module) make both branches raise
Model_predict(kind) ==
    IF kind \notin {"Dataset", "str"} THEN Raise("TypeError")
    ELSE IF model = None THEN Raise("ValueError")
    ELSE IF kind = "Dataset" THEN Raise("UnboundLocalError")
    ELSE Raise("NameError")

ModelPredict ==
    /\ cls = "PytorchModel" /\ frame.pc = "idle"
    /\ \E kind \in {"Dataset", "str", "list"} :
          call' = [fn |-> "predict", arg |-> [kind |-> kind], ret |-> Model_predict(kind)]
    /\ UNCHANGED <<inst, prev>>

\* save, lines 264-265: torch.save(self.model, path)
ModelSave ==
    /\ cls = "PytorchModel" /\ frame.pc = "idle"
    /\ disk' = [type |-> "file", content |-> model]
    /\ call' = [fn |-> "save", arg |-> <<>>, ret |-> Return(None)]
    /\ UNCHANGED <<cls, bidirectional, model, token_to_index, word_to_index, tag_to_index,
                   labels, frame, fitted, loaded, prev, env>>

\* load, lines 267-269: model = torch.load(path); model.eval(). The network it
\* reads is bound to a local only.
Model_load(file) ==
    IF file.type = "absent" THEN Raise("FileNotFoundError")
    ELSE IF file.content = None THEN Raise("AttributeError")
    ELSE Return(None)

ModelLoad ==
    /\ cls = "PytorchModel" /\ frame.pc = "idle"
    /\ call' = [fn |-> "load", arg |-> <<>>, ret |-> Model_load(disk)]
    /\ loaded' = (loaded \/ Model_load(disk).outcome = "return")
    /\ UNCHANGED <<cls, bidirectional, model, token_to_index, word_to_index, tag_to_index,
                   labels, disk, frame, fitted, prev, env>>

\* __init__ of a new instance of the class (bilstm_crf.py 41-42, pytorch_model.py
\* 43-46): the class attributes show through again; the file on disk stays
Construct ==
    /\ frame.pc = "idle"
    /\ call.fn # "__init__"
    /\ \E b \in BOOLEAN :
          /\ cls = "BiLstmCrfLearner" => b = FALSE
          /\ bidirectional' = b
    /\ model' = None
    /\ token_to_index' = <<>>
    /\ word_to_index' = <<>>
    /\ tag_to_index' = <<>>
    /\ labels' = {}
    /\ fitted' = FALSE
    /\ loaded' = FALSE
    /\ call' = [fn |-> "__init__", arg |-> <<>>, ret |-> Return(None)]
    /\ UNCHANGED <<cls, disk, frame, prev, env>>

\* ------------------------------------------------------------------ specifications of the instances

\* a new instance of either class, and the training data its caller holds
InitInstance ==
    /\ \E c \in {"BiLstmCrfLearner", "PytorchModel"}, b \in BOOLEAN :
          /\ c = "BiLstmCrfLearner" => b = FALSE
          /\ FreshInstance(c, b)
    /\ env \in IF cls = "BiLstmCrfLearner"
               THEN {[x_data |-> x, y_data |-> y] : x \in TokenCorpora, y \in TagCorpora}
               ELSE FitDatasets
    /\ call = [fn |-> "__init__", arg |-> <<>>, ret |-> Return(None)]
    /\ prev = NoCall

\* fit as the first call on the instance
FirstLearnerFit == call.fn = "__init__" /\ LearnerFit

FirstModelFit == call.fn = "__init__" /\ ModelFit

\* one fit call on a new instance
NextFit ==
    \/ FirstLearnerFit \/ LearnerZeroGrad \/ LearnerVectorize \/ LearnerForward
    \/ LearnerLoss \/ LearnerBackward \/ LearnerStep \/ LearnerFitReturn
    \/ FirstModelFit \/ ModelEpoch \/ ModelZeroGrad \/ ModelVectorize \/ ModelForward
    \/ ModelLoss \/ ModelBackward \/ ModelStep \/ ModelEpochEnd \/ ModelFitReturn

SpecFit == InitInstance /\ [][NextFit]_vars

\* any sequence of calls on an instance and on the instances made after it
Next ==
    \/ LearnerFit \/ LearnerZeroGrad \/ LearnerVectorize \/ LearnerForward
    \/ LearnerLoss \/ LearnerBackward \/ LearnerStep \/ LearnerFitReturn
    \/ LearnerPredict
    \/ ModelFit \/ ModelEpoch \/ ModelZeroGrad \/ ModelVectorize \/ ModelForward
    \/ ModelLoss \/ ModelBackward \/ ModelStep \/ ModelEpochEnd \/ ModelFitReturn
    \/ ModelPredict \/ ModelSave \/ ModelLoad
    \/ Construct

Spec == InitInstance /\ [][Next]_vars

\* ------------------------------------------------------------------ properties of the data functions

Range(s) == {s[i] : i \in DOMAIN s}

RECURSIVE Concat(_)
Concat(ss) == IF ss = <<>> THEN <<>> ELSE Head(ss) \o Concat(Tail(ss))

Returned(fn) == call.fn = fn /\ call.ret.outcome = "return"

\* the position at which x first occurs in flat
FirstSeen(flat, x) ==
    CHOOSE i \in DOMAIN flat : flat[i] = x /\ \A j \in 1..(i - 1) : flat[j] # x

\* to_index maps exactly the items of flat, each to the number of distinct items
\* first seen before it
IsFirstSeenIndex(to_index, flat) ==
    /\ DOMAIN to_index = Range(flat)
    /\ \A x \in DOMAIN to_index :
          to_index[x] = Cardinality({y \in DOMAIN to_index :
                                        FirstSeen(flat, y) < FirstSeen(flat, x)})

\* the indices are exactly 0..|V|-1, one per item
IsDenseIndex(to_index) ==
    /\ {to_index[x] : x \in DOMAIN to_index} = 0..(DictLen(to_index) - 1)
    /\ \A x, y \in DOMAIN to_index : to_index[x] = to_index[y] => x = y

Documents(training_data) == [k \in DOMAIN training_data |-> training_data[k][1]]

TagSequences(training_data) == [k \in DOMAIN training_data |-> training_data[k][2]]

CeilDiv(n, w) == (n + w - 1) \div w

\* C2: the segments of a sequence of length N are contiguous and in order, their
\* concatenation is the sequence, all but the last have length SEGMENT_SIZE, the
\* last has between 1 and SEGMENT_SIZE items, and there are ceil(N / SEGMENT_SIZE)
\* of them: 250 items give lengths 100, 100, 50, 100 items give one segment, no
\* items give no segment.
SegmentsPartitionSource ==
    Returned("get_segments") =>
        LET source == call.arg[1]
            segments == call.ret.value
            N == Len(source)
            count == Len(segments)
        IN /\ Concat(segments) = source
           /\ count = CeilDiv(N, SEGMENT_SIZE)
           /\ \A k \in 1..count :
                 segments[k] = SubSeq(source, (k - 1) * SEGMENT_SIZE + 1,
                                      Min(k * SEGMENT_SIZE, N))
           /\ \A k \in 1..(count - 1) : Len(segments[k]) = SEGMENT_SIZE
           /\ count > 0 => /\ Len(segments[count]) >= 1
                           /\ Len(segments[count]) <= SEGMENT_SIZE
           /\ N = 250 => [k \in 1..count |-> Len(segments[k])] = <<100, 100, 50>>
           /\ N = 100 => [k \in 1..count |-> Len(segments[k])] = <<100>>
           /\ N = 0 => segments = <<>>

\* C2 witness: a sequence of 250 items has been cut into three segments
SegmentsWitness ==
    /\ Returned("get_segments")
    /\ Len(call.arg[1]) = 250
    /\ Len(call.ret.value) = 3

\* C3: get_training_data emits only pairs of equal length, and raises when a
\* document and its tags differ in length
SegmentPairsAligned ==
    (call.fn = "get_training_data" /\ call.ret # Pending) =>
        /\ (\E k \in DOMAIN call.arg.training_data :
               Len(call.arg.training_data[k][1]) # Len(call.arg.training_data[k][2]))
           => call.ret.outcome = "raise"
        /\ call.ret.outcome = "return" =>
               \A k \in DOMAIN call.ret.value :
                   Len(call.ret.value[k][1]) = Len(call.ret.value[k][2])

\* ------------------------------------------------------------------ properties of the instances

\* the argument kinds PytorchModel.predict accepts
AcceptedKinds == {"Dataset", "str"}

\* C5: on an instance on which no fit has completed and no load has been made,
\* predict with an input of an accepted type raises the precondition error of
\* its class (RuntimeError for BiLstmCrfLearner, ValueError for PytorchModel);
\* it raises nothing else and returns no predictions
PredictBeforeFitRaisesPrecondition ==
    (/\ call.fn = "predict" /\ ~fitted /\ ~loaded
     /\ cls = "PytorchModel" => call.arg.kind \in AcceptedKinds) =>
        call.ret = Raise(IF cls = "BiLstmCrfLearner" THEN "RuntimeError" ELSE "ValueError")

\* C6: a load that returns on a PytorchModel instance has installed the saved
\* network and non-empty vocabulary and label maps, and a predict with an
\* accepted input on an instance that has loaded does not raise the
\* precondition error
LoadMakesReady ==
    /\ (cls = "PytorchModel" /\ Returned("load")) =>
          /\ model # None /\ model = disk.content
          /\ DictLen(word_to_index) > 0 /\ DictLen(tag_to_index) > 0
    /\ (/\ cls = "PytorchModel" /\ loaded
        /\ call.fn = "predict" /\ call.arg.kind \in AcceptedKinds) =>
          call.ret # Raise("ValueError")

\* C7: a step in which a fit call raises leaves model, the token, word and tag
\* mappings and labels as they were when the call was made
FailedFitLeavesState ==
    [][(call'.fn = "fit" /\ call'.ret.outcome = "raise" /\ call' # call) =>
          Observable' = (IF frame.pc = "idle" THEN Observable ELSE frame.before)]_vars

\* the calls of one training step in the order of the loop body
StepOrder == <<"zero_grad", "vectorize", "forward", "loss", "backward", "step">>

\* how many calls of the step have been made when the loop is at pc
StepsDone(pc) ==
    CASE pc = "vectorize" -> 1 [] pc = "forward" -> 2 [] pc = "loss" -> 3
      [] pc = "backward" -> 4 [] pc = "step" -> 5

\* C8: in both fit methods, in every epoch and for every example, the step makes
\* its calls in the order zero_grad, vectorize, forward, loss, backward, step;
\* from the reset up to the backward pass no gradient is accumulated, the
\* optimizer updates with the gradients of this step's one backward pass, and
\* the updates made are one per example done (all examples of the epochs done
\* and, within an epoch, the examples before the current one)
GradientsResetEachStep ==
    frame.pc # "idle" =>
        /\ frame.pc \in {"vectorize", "forward", "loss", "backward"} => frame.grads = 0
        /\ frame.pc = "step" => frame.grads = 1
        /\ frame.pc \in {"vectorize", "forward", "loss", "backward", "step"} =>
              frame.log = SubSeq(StepOrder, 1, StepsDone(frame.pc))
        /\ frame.pc \in {"loop", "epoch"} => frame.log \in {<<>>, StepOrder}
        /\ frame.updates = frame.epoch * Len(frame.examples)
                           + (IF frame.pc = "epoch" THEN 0 ELSE frame.i)

\* C8 witness: PytorchModel.fit is about to update in its second epoch, and
\* has updated once per example of the first
GradientsWitness ==
    /\ cls = "PytorchModel" /\ frame.pc = "step"
    /\ frame.epoch = 1 /\ frame.updates >= 1 /\ frame.grads = 1

\* the span of the maximal run of one tag that begins at token i, with the
\* positions of its first and last token as offsets
RunSpan(tags, i) ==
    [start |-> i,
     end |-> CHOOSE j \in i..Len(tags) :
                /\ \A k \in i..j : tags[k] = tags[i]
                /\ j = Len(tags) \/ tags[j + 1] # tags[i],
     label |-> tags[i]]

\* one span for each maximal run of a tag other than 'O'
Collapse(tags) ==
    {RunSpan(tags, i) : i \in {k \in DOMAIN tags :
                                  tags[k] # "O" /\ (k = 1 \/ tags[k - 1] # tags[k])}}

\* C9: predict on a fitted PytorchModel with an accepted input returns the
\* entity spans that collapse the tags the network gave the tokens: one span
\* for each maximal run of one tag other than 'O'
PredictCollapsesRuns ==
    (/\ cls = "PytorchModel" /\ fitted
     /\ call.fn = "predict" /\ call.arg.kind \in AcceptedKinds) =>
        /\ call.ret.outcome = "return"
        /\ \E tags \in SeqsUpTo(DOMAIN tag_to_index, MaxLen) :
              call.ret.value = Collapse(tags)

====
